---- MODULE Spec2Model ----
\* Lexical scope resolver and closure-capture analyzer (src/semantic/scope.rs):
\* a Stack of Frames, each Frame holding a slot list and a stack of Scopes.
EXTENDS Integers, Sequences, FiniteSets, TLC

\* ---------------------------------------------------------------- bounds
MaxFrames == 3
MaxBlocks == 1
MaxSlots == 4
MaxFrameSlots == 2
MaxSuffix == 1
MaxPos == 1

\* ---------------------------------------------------------------- symbols
\* A Symbol is an interned identifier; the interner is a bijection between
\* symbols and texts, so a symbol is modelled by its text: a sequence whose
\* head is the identifier the user wrote and whose tail is a run of
\* "@closed" markers appended by Stack::resolve.
UserIdentifiers == {<<"x">>, <<"y">>}

RECURSIVE Suffixed(_, _)
Suffixed(text, n) == IF n = 0 THEN text ELSE Append(Suffixed(text, n - 1), "@closed")

\* Every symbol handle: user identifiers and symbols synthesized from them.
Symbols == {Suffixed(t, n) : t \in UserIdentifiers, n \in 0..MaxSuffix}

SourcePos == 1..MaxPos

\* ---------------------------------------------------------------- values
Regular == [kind |-> "Regular"]
Closed == [kind |-> "Closed"]
Capture(from) == [kind |-> "Capture", from |-> from]

None == [some |-> FALSE]
Some(v) == [some |-> TRUE, val |-> v]

Ok(ix) == [tag |-> "Ok", ix |-> ix]
DuplicateVariable(symbol, pos) ==
    [tag |-> "Err", error |-> "DuplicateVariable", symbol |-> symbol, pos |-> pos]
\* Mutant: the wrong error constructor is called.
UndeclaredReportedAsDuplicate(symbol, pos) ==
    [tag |-> "Err", error |-> "DuplicateVariable", symbol |-> symbol, pos |-> pos]

UndeclaredVariable(symbol, pos) ==
    [tag |-> "Err", error |-> "UndeclaredVariable", symbol |-> symbol, pos |-> pos]
Unit == [tag |-> "Unit"]
Panic(msg) == [tag |-> "Panic", msg |-> msg]
\* Mutant: the slots are moved out last first.
FrameInfoReversed(frame) ==
    [tag |-> "FrameInfo",
     slots |-> [j \in 1..Len(frame.slots) |-> frame.slots[Len(frame.slots) + 1 - j]]]

FrameInfo(frame) == [tag |-> "FrameInfo", slots |-> frame.slots]
NoCall == [op |-> "none"]

\* ---------------------------------------------------------------- state
VARIABLES
    frames,            \* Stack.frames: Seq of [slots, scopes], innermost last
    any_symbol,        \* resolve may be handed synthesized ("@closed") symbols
    aborted,           \* a panic has unwound out of a public operation
    call,              \* the public operation invoked by the last step
    ret,               \* what that operation returned (or the panic)
    owed,              \* history: per frame, what cross-frame resolves promised
    memo,              \* history: captures resolved from the innermost frame
    chain,             \* history: per frame, the capture slot made for a symbol
    introduced         \* history: what resolve_or_declare returned in this frame

vars == <<frames, any_symbol, aborted, call, ret, owed, memo, chain, introduced>>

\* ---------------------------------------------------------------- Scope
EmptyScope == [s \in {} |-> 0]

ScopeHas(scope, symbol) == symbol \in DOMAIN scope

\* Scope::declare: insert if vacant, report whether it inserted.
ScopeDeclare(scope, symbol, ix) ==
    IF ScopeHas(scope, symbol)
    THEN [ok |-> FALSE, scope |-> scope]
    ELSE [ok |-> TRUE,
          scope |-> [s \in (DOMAIN scope) \cup {symbol} |->
                        IF s = symbol THEN ix ELSE scope[s]]]

\* Scope::resolve
ScopeResolve(scope, symbol) ==
    IF ScopeHas(scope, symbol) THEN Some(scope[symbol]) ELSE None

\* ---------------------------------------------------------------- Frame
FrameNew == [slots |-> <<>>, scopes |-> <<>>]

FrameEnterBlock(frame) == [frame EXCEPT !.scopes = Append(@, EmptyScope)]

\* Mutant: the popped scope's variables are kept, merged into the scope
\* that encloses it.
FrameExitBlockMerging(frame) ==
    LET n == Len(frame.scopes)
        popped == frame.scopes[n]
    IN IF n < 2 THEN [frame EXCEPT !.scopes = SubSeq(@, 1, n - 1)]
       ELSE [frame EXCEPT !.scopes =
                [SubSeq(@, 1, n - 1) EXCEPT ![n - 1] =
                    [s \in (DOMAIN @) \cup (DOMAIN popped) |->
                        IF s \in DOMAIN popped THEN popped[s] ELSE @[s]]]]

\* Frame::exit_block; the caller handles the empty case (expect -> panic).
FrameExitBlock(frame) ==
    [frame EXCEPT !.scopes = SubSeq(@, 1, Len(@) - 1)]

\* Mutant: the slot is pushed and the mapping overwritten without looking at
\* what Scope::declare reports.
FrameDeclareUnchecked(frame, symbol, pos) ==
    LET top == Len(frame.scopes)
        slot_ix == Len(frame.slots)
    IN [frame |-> [slots |-> Append(frame.slots, Regular),
                   scopes |-> [frame.scopes EXCEPT ![top] =
                                  [s \in (DOMAIN @) \cup {symbol} |->
                                      IF s = symbol THEN slot_ix ELSE @[s]]]],
        ret |-> Ok(slot_ix)]

\* Mutant: the index is taken after the push, so indices start at 1.
FrameDeclareOneBased(frame, symbol, pos) ==
    LET top == Len(frame.scopes)
        slot_ix == Len(frame.slots) + 1
        d == ScopeDeclare(frame.scopes[top], symbol, slot_ix)
    IN IF d.ok
       THEN [frame |-> [slots |-> Append(frame.slots, Regular),
                        scopes |-> [frame.scopes EXCEPT ![top] = d.scope]],
             ret |-> Ok(slot_ix)]
       ELSE [frame |-> frame, ret |-> DuplicateVariable(symbol, pos)]

\* Frame::declare on a frame with at least one open scope.
FrameDeclare(frame, symbol, pos) ==
    LET top == Len(frame.scopes)
        slot_ix == Len(frame.slots)
        d == ScopeDeclare(frame.scopes[top], symbol, slot_ix)
    IN IF d.ok
       THEN [frame |-> [slots |-> Append(frame.slots, Regular),
                        scopes |-> [frame.scopes EXCEPT ![top] = d.scope]],
             ret |-> Ok(slot_ix)]
       ELSE [frame |-> frame, ret |-> DuplicateVariable(symbol, pos)]

\* Mutant: the scopes are searched without .rev(), outermost first.
FrameResolveOutermostFirst(frame, symbol) ==
    LET hits == {i \in 1..Len(frame.scopes) : ScopeHas(frame.scopes[i], symbol)}
    IN IF hits = {} THEN None
       ELSE LET i == CHOOSE j \in hits : \A h \in hits : j <= h
            IN ScopeResolve(frame.scopes[i], symbol)

\* Frame::resolve: innermost scope first.
FrameResolve(frame, symbol) ==
    LET hits == {i \in 1..Len(frame.scopes) : ScopeHas(frame.scopes[i], symbol)}
    IN IF hits = {} THEN None
       ELSE LET i == CHOOSE j \in hits : \A h \in hits : h <= j
            IN ScopeResolve(frame.scopes[i], symbol)

\* Mutant: an occupied entry has its slot re-initialised with slot_kind.
FrameResolveOrDeclareOverwriting(frame, symbol, slot_kind) ==
    LET scope == frame.scopes[1]
    IN IF ScopeHas(scope, symbol)
       THEN [frame |-> [frame EXCEPT !.slots[scope[symbol] + 1] = slot_kind],
             ix |-> scope[symbol]]
       ELSE LET slot_ix == Len(frame.slots)
            IN [frame |-> [slots |-> Append(frame.slots, slot_kind),
                           scopes |-> [frame.scopes EXCEPT ![1] =
                                          ScopeDeclare(scope, symbol, slot_ix).scope]],
                ix |-> slot_ix]

\* Frame::resolve_or_declare on a frame with a first scope.
FrameResolveOrDeclare(frame, symbol, slot_kind) ==
    LET scope == frame.scopes[1]
    IN IF ScopeHas(scope, symbol)
       THEN [frame |-> frame, ix |-> scope[symbol]]
       ELSE LET slot_ix == Len(frame.slots)
            IN [frame |-> [slots |-> Append(frame.slots, slot_kind),
                           scopes |-> [frame.scopes EXCEPT ![1] =
                                          ScopeDeclare(scope, symbol, slot_ix).scope]],
                ix |-> slot_ix]

\* Mutant: close leaves the slot as it is.
FrameCloseNothing(frame, slot_ix) == frame

\* Frame::close
FrameClose(frame, slot_ix) == [frame EXCEPT !.slots[slot_ix + 1] = Closed]

\* ---------------------------------------------------------------- Stack
\* Mutant: the frames are searched without .rev(), outermost first.
FindOriginOutermostFirst(fs, symbol) ==
    LET hits == {i \in 1..Len(fs) : FrameResolve(fs[i], symbol).some}
    IN IF hits = {} THEN None
       ELSE LET i == CHOOSE j \in hits : \A h \in hits : j <= h
            IN Some([frame_ix |-> i, slot_ix |-> FrameResolve(fs[i], symbol).val])

\* Stack::resolve, the search: innermost frame holding the symbol.
FindOrigin(fs, symbol) ==
    LET hits == {i \in 1..Len(fs) : FrameResolve(fs[i], symbol).some}
    IN IF hits = {} THEN None
       ELSE LET i == CHOOSE j \in hits : \A h \in hits : h <= j
            IN Some([frame_ix |-> i, slot_ix |-> FrameResolve(fs[i], symbol).val])

\* The synthesized symbol: the identifier with "@closed" pushed onto it.
SymbolCaptured(symbol) == Append(symbol, "@closed")

\* The loop over frames[frame_ix + 1 ..]: i is the next frame to visit.
\* A frame without a first scope panics ("frame missing root scope").
\* trace lists the values slot_ix takes, one per frame visited.
\* Mutant: the loop does not assign slot_ix, so every frame captures from the
\* origin's slot index and the origin's index is returned.
RECURSIVE InstallCapturesUnthreaded(_, _, _, _)
InstallCapturesUnthreaded(fs, i, symbol_captured, slot_ix) ==
    IF i > Len(fs)
    THEN [frames |-> fs, slot_ix |-> slot_ix, panic |-> FALSE, trace |-> <<>>]
    ELSE IF Len(fs[i].scopes) = 0
         THEN [frames |-> fs, slot_ix |-> slot_ix, panic |-> TRUE, trace |-> <<>>]
         ELSE LET r == FrameResolveOrDeclare(fs[i], symbol_captured, Capture(slot_ix))
                  rest == InstallCapturesUnthreaded([fs EXCEPT ![i] = r.frame], i + 1,
                                                    symbol_captured, slot_ix)
              IN [rest EXCEPT !.trace = <<r.ix>> \o @]

RECURSIVE InstallCaptures(_, _, _, _)
InstallCaptures(fs, i, symbol_captured, slot_ix) ==
    IF i > Len(fs)
    THEN [frames |-> fs, slot_ix |-> slot_ix, panic |-> FALSE, trace |-> <<>>]
    ELSE IF Len(fs[i].scopes) = 0
         THEN [frames |-> fs, slot_ix |-> slot_ix, panic |-> TRUE, trace |-> <<>>]
         ELSE LET r == FrameResolveOrDeclare(fs[i], symbol_captured, Capture(slot_ix))
                  rest == InstallCaptures([fs EXCEPT ![i] = r.frame], i + 1,
                                          symbol_captured, r.ix)
              IN [rest EXCEPT !.trace = <<r.ix>> \o @]

\* Mutant: the slot is closed in the frame where it was found before the
\* test for the local frame.
StackResolveClosingLocal(fs, symbol, pos) ==
    LET o == FindOrigin(fs, symbol)
    IN IF ~o.some
       THEN [frames |-> fs, ret |-> UndeclaredVariable(symbol, pos), captured |-> FALSE]
       ELSE LET closed == [fs EXCEPT ![o.val.frame_ix] =
                              FrameClose(@, o.val.slot_ix)]
            IN IF o.val.frame_ix = Len(fs)
               THEN [frames |-> closed, ret |-> Ok(o.val.slot_ix), captured |-> FALSE]
               ELSE LET c == InstallCaptures(closed, o.val.frame_ix + 1,
                                             SymbolCaptured(symbol), o.val.slot_ix)
                    IN IF c.panic
                       THEN [frames |-> c.frames, captured |-> FALSE,
                             ret |-> Panic("frame missing root scope")]
                       ELSE [frames |-> c.frames, captured |-> TRUE,
                             ret |-> Ok(c.slot_ix),
                             origin |-> o.val, trace |-> c.trace]

\* Stack::resolve as a function of the frames.
StackResolve(fs, symbol, pos) ==
    LET o == FindOrigin(fs, symbol)
    IN IF ~o.some
       THEN [frames |-> fs, ret |-> UndeclaredVariable(symbol, pos), captured |-> FALSE]
       ELSE IF o.val.frame_ix = Len(fs)
            THEN [frames |-> fs, ret |-> Ok(o.val.slot_ix), captured |-> FALSE]
            ELSE LET closed == [fs EXCEPT ![o.val.frame_ix] =
                                   FrameClose(@, o.val.slot_ix)]
                     c == InstallCaptures(closed, o.val.frame_ix + 1,
                                          SymbolCaptured(symbol), o.val.slot_ix)
                 IN IF c.panic
                    THEN [frames |-> c.frames, captured |-> FALSE,
                          ret |-> Panic("frame missing root scope")]
                    ELSE [frames |-> c.frames, captured |-> TRUE,
                          ret |-> Ok(c.slot_ix),
                          origin |-> o.val, trace |-> c.trace]

\* Number of slots allocated over all the frames of the stack.
RECURSIVE TotalSlots(_)
TotalSlots(fs) ==
    IF Len(fs) = 0 THEN 0 ELSE Len(fs[1].slots) + TotalSlots(Tail(fs))

Fits(fs) ==
    /\ TotalSlots(fs) <= MaxSlots
    /\ \A i \in 1..Len(fs) : Len(fs[i].slots) <= MaxFrameSlots

\* Number of blocks open beyond the first scope of each frame of the stack.
RECURSIVE TotalBlocks(_)
TotalBlocks(fs) ==
    IF Len(fs) = 0 THEN 0
    ELSE (IF Len(fs[1].scopes) > 1 THEN Len(fs[1].scopes) - 1 ELSE 0)
         + TotalBlocks(Tail(fs))

Top == frames[Len(frames)]

\* ---------------------------------------------------------------- history
NoDebt == [closed |-> {}, from |-> {}]
NoMemo == [s \in {} |-> 0]

Forget(m, symbol) == [s \in (DOMAIN m) \ {symbol} |-> m[s]]
Remember(m, symbol, ix) ==
    [s \in (DOMAIN m) \cup {symbol} |-> IF s = symbol THEN ix ELSE m[s]]

\* What a successful cross-frame resolve promises about the FrameInfo of the
\* origin (slot closed) and of every frame below it (a Capture of the slot
\* the loop carried out of the parent frame).
Promise(ow, origin, trace) ==
    [i \in 1..Len(ow) |->
        IF i = origin.frame_ix
        THEN [ow[i] EXCEPT !.closed = @ \cup {origin.slot_ix}]
        ELSE IF i = origin.frame_ix + 1
             THEN [ow[i] EXCEPT !.from = @ \cup {origin.slot_ix}]
             ELSE IF i > origin.frame_ix + 1
                  THEN [ow[i] EXCEPT !.from = @ \cup {trace[i - origin.frame_ix - 1]}]
                  ELSE ow[i]]

\* The capture slots a successful cross-frame resolve of symbol made or found
\* in the frames below the origin: trace[k] is the slot of frame origin + k.
Chained(ch, symbol, origin, trace) ==
    [i \in 1..Len(ch) |->
        IF i > origin.frame_ix
        THEN Remember(ch[i], symbol, trace[i - origin.frame_ix])
        ELSE ch[i]]

\* The history of the frames a step leaves on the stack: a frame pushed
\* starts with none, a frame popped takes its own away.
Recorded(ch, in) ==
    /\ chain' = IF Len(frames') > Len(frames) THEN Append(ch, NoMemo)
                ELSE SubSeq(ch, 1, Len(frames'))
    /\ introduced' = IF Len(frames') # Len(frames) THEN NoMemo ELSE in

Return(op, fs, r, ow, me) ==
    /\ frames' = fs
    /\ call' = op
    /\ ret' = r
    /\ aborted' = (r.tag = "Panic")
    /\ owed' = ow
    /\ memo' = me
    /\ UNCHANGED any_symbol

\* ---------------------------------------------------------------- actions
\* The symbols handed to resolve: identifiers of the source program, which
\* cannot contain '@' (scope.rs:218-220), unless any_symbol lifts that.
ResolveArguments == IF any_symbol THEN Symbols ELSE UserIdentifiers

InitStack ==
    /\ frames = <<>>
    /\ aborted = FALSE
    /\ call = NoCall
    /\ ret = Unit
    /\ owed = <<>>
    /\ memo = NoMemo
    /\ chain = <<>>
    /\ introduced = NoMemo

Init == InitStack /\ any_symbol = FALSE

InitAnySymbol == InitStack /\ any_symbol = TRUE

EnterFrame ==
    /\ ~aborted
    /\ Len(frames) < MaxFrames
    /\ Return([op |-> "enter_frame"], Append(frames, FrameEnterBlock(FrameNew)), Unit,
              Append(owed, NoDebt), NoMemo)
    /\ Recorded(chain, introduced)

\* debug_assert! is compiled in or out by the build (debug_assertions).
ExitFrame ==
    /\ ~aborted
    /\ \E debug_assertions \in BOOLEAN :
       LET op == [op |-> "exit_frame"] IN
       IF Len(frames) = 0
       THEN Return(op, frames, Panic("attempt to exit empty stack"), owed, memo)
       ELSE LET rest == SubSeq(frames, 1, Len(frames) - 1)
                ow == SubSeq(owed, 1, Len(owed) - 1) IN
            IF Len(Top.scopes) = 0
            THEN Return(op, rest, Panic("attempt to exit empty stack"), ow, NoMemo)
            ELSE LET frame == FrameExitBlock(Top) IN
                 IF debug_assertions /\ Len(frame.scopes) # 0
                 THEN Return(op, rest, Panic("assertion failed: frame.scopes.is_empty()"),
                             ow, NoMemo)
                 ELSE Return(op, rest, FrameInfo(frame), ow, NoMemo)
    /\ Recorded(chain, introduced)

EnterBlock ==
    /\ ~aborted
    /\ LET op == [op |-> "enter_block"] IN
       IF Len(frames) = 0
       THEN Return(op, frames, Panic("empty stack"), owed, memo)
       ELSE LET fs == [frames EXCEPT ![Len(frames)] = FrameEnterBlock(@)] IN
            /\ TotalBlocks(fs) <= MaxBlocks
            /\ Return(op, fs, Unit, owed, memo)
    /\ Recorded(chain, introduced)

ExitBlock ==
    /\ ~aborted
    /\ LET op == [op |-> "exit_block"] IN
       IF Len(frames) = 0
       THEN Return(op, frames, Panic("empty stack"), owed, memo)
       ELSE IF Len(Top.scopes) = 0
            THEN Return(op, frames, Panic("attempt to exit empty stack"), owed, memo)
            ELSE Return(op, [frames EXCEPT ![Len(frames)] = FrameExitBlock(@)], Unit,
                        owed, memo)
    /\ Recorded(chain, introduced)

Declare ==
    /\ ~aborted
    /\ \E symbol \in UserIdentifiers, pos \in SourcePos :
       LET op == [op |-> "declare", symbol |-> symbol, pos |-> pos] IN
       IF Len(frames) = 0
       THEN Return(op, frames, Panic("empty stack"), owed, memo)
       ELSE IF Len(Top.scopes) = 0
            THEN Return(op, frames, Panic("attempt to declare in empty stack"), owed, memo)
            ELSE LET d == FrameDeclare(Top, symbol, pos)
                     fs == [frames EXCEPT ![Len(frames)] = d.frame] IN
                 /\ Fits(fs)
                 /\ Return(op, fs, d.ret, owed, Forget(memo, symbol))
    /\ Recorded(chain, introduced)

Resolve ==
    /\ ~aborted
    /\ \E symbol \in ResolveArguments, pos \in SourcePos :
       LET op == [op |-> "resolve", symbol |-> symbol, pos |-> pos]
           r == StackResolve(frames, symbol, pos)
       IN /\ Fits(r.frames)
          /\ IF r.captured
             THEN Return(op, r.frames, r.ret, Promise(owed, r.origin, r.trace),
                         Remember(memo, symbol, r.ret.ix))
             ELSE Return(op, r.frames, r.ret, owed, memo)
    /\ LET r == StackResolve(frames, call'.symbol, call'.pos)
       IN IF r.captured
          THEN Recorded(Chained(chain, call'.symbol, r.origin, r.trace), introduced)
          ELSE Recorded(chain, introduced)

ResolveOrDeclare ==
    /\ ~aborted
    /\ \E symbol \in UserIdentifiers :
       LET op == [op |-> "resolve_or_declare", symbol |-> symbol] IN
       IF Len(frames) = 0
       THEN Return(op, frames, Panic("empty stack"), owed, memo)
       ELSE IF Len(Top.scopes) = 0
            THEN Return(op, frames, Panic("frame missing root scope"), owed, memo)
            ELSE LET r == FrameResolveOrDeclare(Top, symbol, Regular)
                     fs == [frames EXCEPT ![Len(frames)] = r.frame] IN
                 /\ Fits(fs)
                 /\ Return(op, fs, [tag |-> "SlotIx", ix |-> r.ix], owed,
                           Forget(memo, symbol))
    /\ IF ret'.tag = "SlotIx"
       THEN Recorded(chain, Remember(introduced, call'.symbol, ret'.ix))
       ELSE Recorded(chain, introduced)

Next ==
    \/ EnterFrame
    \/ ExitFrame
    \/ EnterBlock
    \/ ExitBlock
    \/ Declare
    \/ Resolve
    \/ ResolveOrDeclare

Spec == Init /\ [][Next]_vars

SpecAnySymbol == InitAnySymbol /\ [][Next]_vars

\* ================================================================ claims
\* Frames that are on the stack before and after a step.
Kept == 1..(IF Len(frames') < Len(frames) THEN Len(frames') ELSE Len(frames))

\* Whether any open scope of the frame holds the symbol.
Holds(frame, symbol) ==
    \E i \in 1..Len(frame.scopes) : symbol \in DOMAIN frame.scopes[i]

\* The innermost open scope of the frame that holds the symbol.
Innermost(frame, symbol) ==
    CHOOSE i \in 1..Len(frame.scopes) :
        /\ symbol \in DOMAIN frame.scopes[i]
        /\ \A j \in (i + 1)..Len(frame.scopes) : symbol \notin DOMAIN frame.scopes[j]

\* The step is a call of op that did not panic.
Called(op) == call'.op = op /\ ret'.tag # "Panic"

\* C1. Capture idempotence: a successful cross-frame resolve(s) from a frame
\* that already resolved s across frames (no frame entered or exited and s not
\* declared in between, blocks entered and exited at will) returns the SlotIx
\* of the earlier call and allocates no slot in any frame.
C1_CaptureIdempotent ==
    [][(/\ Called("resolve")
        /\ ret'.tag = "Ok"
        /\ call'.symbol \in DOMAIN memo
        /\ ~Holds(Top, call'.symbol))
       => (/\ ret'.ix = memo[call'.symbol]
           /\ \A i \in 1..Len(frames) :
                 Len(frames'[i].slots) = Len(frames[i].slots))]_vars

\* C2. Every FrameInfo returned by exit_frame reports Closed at each slot a
\* cross-frame resolve found in that frame, and holds a Capture{from} slot for
\* each slot index from that such a resolve carried out of the parent frame
\* (the origin's slot k, or the parent's own capture slot).
C2_FrameInfoReportsChain ==
    [][(call'.op = "exit_frame" /\ ret'.tag = "FrameInfo")
       => LET debt == owed[Len(owed)] IN
          /\ \A k \in debt.closed : ret'.slots[k + 1] = Closed
          /\ \A f \in debt.from :
                \E j \in 1..Len(ret'.slots) : ret'.slots[j] = Capture(f)]_vars

\* A frame two levels below the origin was exited, and its FrameInfo holds a
\* Capture of the parent's capture slot, which is not the parent's slot 0.
C2_Witness ==
    /\ call.op = "exit_frame"
    /\ ret.tag = "FrameInfo"
    /\ Len(frames) = 2
    /\ Len(frames[2].slots) = 2
    /\ frames[2].slots[2].kind = "Capture"
    /\ frames[1].slots[frames[2].slots[2].from + 1] = Closed
    /\ \E j \in 1..Len(ret.slots) :
          /\ ret.slots[j].kind = "Capture"
          /\ ret.slots[j].from = 1

\* The kind of slot j of frame i either stays or goes from Regular to Closed.
KindKept(i, j) ==
    \/ frames'[i].slots[j] = frames[i].slots[j]
    \/ frames[i].slots[j] = Regular /\ frames'[i].slots[j] = Closed

\* C3 (as stated). In every step of every sequence of public operations,
\* resolve being handed any Symbol, the kind of an existing slot of a frame on
\* the stack stays the same or changes from Regular to Closed.
C3_KindOnlyRegularToClosed ==
    [][\A i \in Kept : \A j \in 1..Len(frames[i].slots) :
          j <= Len(frames'[i].slots) => KindKept(i, j)]_vars

\* C3 (amended). The same, for every step that is not a resolve of a
\* synthesized ("@closed") symbol.
C3_KindOnlyRegularToClosedForIdentifiers ==
    [][~(call'.op = "resolve" /\ call'.symbol \notin UserIdentifiers)
       => \A i \in Kept : \A j \in 1..Len(frames[i].slots) :
             j <= Len(frames'[i].slots) => KindKept(i, j)]_vars

\* A resolve of a user identifier has just closed a slot of an ancestor while
\* capture slots exist below it.
C3_Witness ==
    /\ call.op = "resolve"
    /\ call.symbol \in UserIdentifiers
    /\ ret.tag = "Ok"
    /\ Len(frames) = 3
    /\ \E j \in 1..Len(frames[1].slots) : frames[1].slots[j] = Closed
    /\ \E j \in 1..Len(frames[2].slots) : frames[2].slots[j].kind = "Capture"
    /\ \E j \in 1..Len(frames[3].slots) : frames[3].slots[j].kind = "Capture"

\* C4. declare(s, pos) when s is a key of the innermost open scope of the
\* innermost frame returns DuplicateVariable(s, pos), leaves every frame as it
\* was, and resolve(s) still yields the slot of the first declaration.
C4_DuplicateDeclareChangesNothing ==
    [][(/\ call'.op = "declare"
        /\ Len(frames) > 0
        /\ Len(Top.scopes) > 0
        /\ call'.symbol \in DOMAIN Top.scopes[Len(Top.scopes)])
       => (/\ ret'.tag = "Err"
           /\ ret'.error = "DuplicateVariable"
           /\ ret'.symbol = call'.symbol
           /\ ret'.pos = call'.pos
           /\ frames' = frames
           /\ LET after == StackResolve(frames', call'.symbol, call'.pos).ret IN
              /\ after.tag = "Ok"
              /\ after.ix = Top.scopes[Len(Top.scopes)][call'.symbol])]_vars

\* A declare has just been refused as a duplicate.
C4_Witness ==
    /\ call.op = "declare"
    /\ ret.tag = "Err"
    /\ ret.error = "DuplicateVariable"
    /\ Len(frames) > 0
    /\ Len(Top.scopes) > 0
    /\ call.symbol \in DOMAIN Top.scopes[Len(Top.scopes)]

\* C5. While no operation has aborted, every frame on the stack has at least
\* one open scope. Scopes are pushed and popped at the top only, so the bottom
\* scope is the one enter_frame opened exactly as long as this holds.
C5_RootScopeKept ==
    ~aborted => \A i \in 1..Len(frames) : Len(frames[i].scopes) >= 1

\* C6. resolve, declare, resolve_or_declare, enter_block, exit_block and
\* exit_frame called with no frame open abort: none returns normally.
C6_NoFrameAborts ==
    [][(/\ Len(frames) = 0
        /\ call'.op \in {"resolve", "declare", "resolve_or_declare",
                         "enter_block", "exit_block", "exit_frame"})
       => ret'.tag = "Panic"]_vars

\* C7. exit_frame called while the innermost frame has a block open besides
\* its root block aborts: it returns no FrameInfo.
C7_ExitFrameWithOpenBlockAborts ==
    [][(/\ call'.op = "exit_frame"
        /\ Len(frames) > 0
        /\ Len(Top.scopes) > 1)
       => ret'.tag = "Panic"]_vars

\* C8. resolve(s, pos) on a non-empty stack none of whose open scopes holds s
\* returns UndeclaredVariable(s, pos) and changes no frame.
C8_UndeclaredResolveChangesNothing ==
    [][(/\ call'.op = "resolve"
        /\ Len(frames) > 0
        /\ \A i \in 1..Len(frames) : ~Holds(frames[i], call'.symbol))
       => (/\ ret'.tag = "Err"
           /\ ret'.error = "UndeclaredVariable"
           /\ ret'.symbol = call'.symbol
           /\ ret'.pos = call'.pos
           /\ frames' = frames)]_vars

\* A resolve has just failed for a symbol unknown to a stack that holds
\* another symbol in an ancestor frame.
C8_Witness ==
    /\ call.op = "resolve"
    /\ ret.tag = "Err"
    /\ ret.error = "UndeclaredVariable"
    /\ Len(frames) >= 2
    /\ \E i \in 1..Len(frames) : Len(frames[i].slots) > 0

\* s is declared in the innermost open scope of the frame and in a scope
\* enclosing it.
Shadowed(frame, symbol) ==
    /\ Len(frame.scopes) >= 2
    /\ symbol \in DOMAIN frame.scopes[Len(frame.scopes)]
    /\ Holds(FrameExitBlock(frame), symbol)

\* The slot of the declaration that the innermost one shadows.
OuterSlot(frame, symbol) ==
    LET outer == FrameExitBlock(frame)
    IN outer.scopes[Innermost(outer, symbol)][symbol]

\* C9. Shadowing within one frame: declaring s in an inner block while an
\* enclosing block of the frame declares it (slot a) succeeds with a slot b
\* different from a; resolve(s) returns b while the inner block is open, and
\* once exit_block has closed the inner block resolve(s) returns a again.
C9_Shadowing ==
    [][\A s \in UserIdentifiers :
          /\ (/\ call'.op = "declare"
              /\ call'.symbol = s
              /\ Len(frames) > 0
              /\ Len(Top.scopes) >= 2
              /\ s \notin DOMAIN Top.scopes[Len(Top.scopes)]
              /\ Holds(Top, s))
             => (/\ ret'.tag = "Ok"
                 /\ ret'.ix # Top.scopes[Innermost(Top, s)][s]
                 /\ Shadowed(frames'[Len(frames')], s)
                 /\ OuterSlot(frames'[Len(frames')], s) = Top.scopes[Innermost(Top, s)][s])
          /\ (/\ call'.op = "resolve"
              /\ call'.symbol = s
              /\ Len(frames) > 0
              /\ Shadowed(Top, s))
             => (/\ ret'.tag = "Ok"
                 /\ ret'.ix = Top.scopes[Len(Top.scopes)][s]
                 /\ ret'.ix # OuterSlot(Top, s))
          /\ (/\ call'.op = "exit_block"
              /\ Len(frames) > 0
              /\ Shadowed(Top, s))
             => LET after == StackResolve(frames', s, 1).ret IN
                /\ after.tag = "Ok"
                /\ after.ix = OuterSlot(Top, s)
          /\ (/\ call'.op = "resolve"
              /\ call'.symbol = s
              /\ call.op = "exit_block"
              /\ Len(frames) > 0
              /\ Holds(Top, s))
             => (/\ ret'.tag = "Ok"
                 /\ ret'.ix = Top.scopes[Innermost(Top, s)][s])]_vars

\* resolve has just returned the inner slot of a symbol that an open inner
\* block redeclares.
C9_Witness ==
    /\ call.op = "resolve"
    /\ ret.tag = "Ok"
    /\ Len(frames) > 0
    /\ Shadowed(Top, call.symbol)
    /\ OuterSlot(Top, call.symbol) = 0
    /\ ret.ix = 1

\* C10. Slot indices of a frame are dense and never reused: every allocation
\* returns the number of slots the frame held just before; the slot list of a
\* frame on the stack never shrinks and an existing slot changes only by being
\* Closed; every SlotIx stored in an open scope is below the frame's slot
\* count, and two symbols of one scope map to different slots.
C10_DenseSlots ==
    /\ [](\A i \in 1..Len(frames) : \A j \in 1..Len(frames[i].scopes) :
            LET scope == frames[i].scopes[j] IN
            /\ \A s \in DOMAIN scope : scope[s] < Len(frames[i].slots)
            /\ \A s, t \in DOMAIN scope : s # t => scope[s] # scope[t])
    /\ [][/\ \A i \in Kept :
               /\ Len(frames'[i].slots) >= Len(frames[i].slots)
               /\ Len(frames'[i].slots) <= Len(frames[i].slots) + 1
               /\ \A j \in 1..Len(frames[i].slots) :
                     \/ frames'[i].slots[j] = frames[i].slots[j]
                     \/ frames'[i].slots[j] = Closed
               /\ Len(frames'[i].slots) = Len(frames[i].slots) + 1
                  => \E j \in 1..Len(frames'[i].scopes) :
                        \E s \in DOMAIN frames'[i].scopes[j] :
                           /\ frames'[i].scopes[j][s] = Len(frames[i].slots)
                           /\ j <= Len(frames[i].scopes) => s \notin DOMAIN frames[i].scopes[j]
          /\ (Called("declare") /\ ret'.tag = "Ok")
             => (/\ ret'.ix = Len(Top.slots)
                 /\ Len(frames'[Len(frames)].slots) = Len(Top.slots) + 1)
          /\ Called("resolve_or_declare")
             => \/ frames' = frames
                \/ ret'.ix = Len(Top.slots)
          /\ (Called("resolve") /\ ret'.tag = "Ok")
             => \/ Len(frames'[Len(frames)].slots) = Len(Top.slots)
                \/ ret'.ix = Len(Top.slots)
          /\ Called("exit_block")
             => frames'[Len(frames)].slots = Top.slots]_vars

\* Two symbols were declared in one block of the outer frame, and a resolve
\* from the inner frame has just allocated its capture slot after a local one.
C10_Witness ==
    /\ call.op = "resolve"
    /\ ret.tag = "Ok"
    /\ ret.ix = 1
    /\ Len(frames) = 2
    /\ Len(frames[1].scopes) = 1
    /\ UserIdentifiers \subseteq DOMAIN frames[1].scopes[1]
    /\ Len(Top.slots) = 2
    /\ Top.slots[1] = Regular
    /\ Top.slots[2].kind = "Capture"

\* No open scope of any frame of the stack holds the symbol.
Unknown(fs, symbol) == \A i \in 1..Len(fs) : ~Holds(fs[i], symbol)

\* The result is UndeclaredVariable for the symbol.
IsUndeclared(r, symbol) ==
    /\ r.tag = "Err"
    /\ r.error = "UndeclaredVariable"
    /\ r.symbol = symbol

\* C11. A symbol declared only inside a block that has been exited is not
\* resolvable afterwards: exit_block of the only scope of the stack holding s
\* leaves no open scope holding s; entering a sibling block or a nested frame
\* keeps it so; and a resolve(s) issued there returns UndeclaredVariable.
C11_ExitedBlockNotResolvable ==
    [][\A s \in UserIdentifiers :
          /\ (/\ call'.op = "exit_block"
              /\ Len(frames) > 0
              /\ Len(Top.scopes) > 0
              /\ s \in DOMAIN Top.scopes[Len(Top.scopes)]
              /\ \A j \in 1..(Len(Top.scopes) - 1) : s \notin DOMAIN Top.scopes[j]
              /\ \A i \in 1..(Len(frames) - 1) : ~Holds(frames[i], s))
             => (/\ Unknown(frames', s)
                 /\ IsUndeclared(StackResolve(frames', s, 1).ret, s))
          /\ (/\ call'.op \in {"enter_block", "enter_frame"}
              /\ Unknown(frames, s))
             => Unknown(frames', s)
          /\ (/\ call'.op = "resolve"
              /\ call'.symbol = s
              /\ call.op \in {"enter_block", "enter_frame"}
              /\ Len(frames) > 0
              /\ Unknown(frames, s))
             => (IsUndeclared(ret', s) /\ frames' = frames)]_vars

\* resolve has just failed in a sibling block of a frame whose only slot was
\* declared in a block that has been exited.
C11_Witness ==
    /\ call.op = "resolve"
    /\ IsUndeclared(ret, call.symbol)
    /\ Len(frames) = 1
    /\ Len(Top.slots) = 1
    /\ Len(Top.scopes) = 2
    /\ DOMAIN Top.scopes[1] = {}
    /\ DOMAIN Top.scopes[2] = {}

\* The nearest frame below the innermost one that holds the symbol.
Ancestor(fs, symbol) ==
    CHOOSE i \in 1..(Len(fs) - 1) :
        /\ Holds(fs[i], symbol)
        /\ \A j \in (i + 1)..(Len(fs) - 1) : ~Holds(fs[j], symbol)

\* The step is a successful resolve of a symbol that the innermost frame
\* does not hold and an ancestor frame does.
CrossFrame ==
    /\ call'.op = "resolve"
    /\ ret'.tag = "Ok"
    /\ Len(frames) > 1
    /\ ~Holds(Top, call'.symbol)

\* C12. Every successful resolve returns a valid index of the innermost
\* frame's slot list; when the symbol was found in an ancestor frame, the slot
\* returned has kind Capture{from}, from being the slot of the chain in the
\* immediately enclosing frame: the origin's slot, which is Closed, when that
\* frame is the origin, and else its capture slot for the symbol.
C12_ResolveReturnsInnermostSlot ==
    [][(call'.op = "resolve" /\ ret'.tag = "Ok")
       => LET n == Len(frames)
              s == call'.symbol
          IN /\ n > 0
             /\ Len(frames') = n
             /\ ret'.ix < Len(frames'[n].slots)
             /\ CrossFrame
                => LET o == Ancestor(frames, s)
                       slot == frames'[n].slots[ret'.ix + 1]
                   IN /\ slot.kind = "Capture"
                      /\ slot.from < Len(frames'[n - 1].slots)
                      /\ IF o = n - 1
                         THEN /\ slot.from = frames[o].scopes[Innermost(frames[o], s)][s]
                              /\ frames'[o].slots[slot.from + 1] = Closed
                         ELSE /\ slot.from = frames'[n - 1].scopes[1][SymbolCaptured(s)]
                              /\ frames'[n - 1].slots[slot.from + 1].kind = "Capture"]_vars

\* resolve from a frame two levels below the origin has just returned a slot
\* that captures the parent's capture slot, which is not the parent's slot 0.
C12_Witness ==
    /\ call.op = "resolve"
    /\ ret.tag = "Ok"
    /\ Len(frames) = 3
    /\ Len(frames[2].slots) = 2
    /\ frames[2].slots[2].kind = "Capture"
    /\ Top.slots[ret.ix + 1] = Capture(1)

\* Following the from links from slot j (1-based) of frame i ends at a Closed
\* slot: the slot is Closed, or it is a Capture whose from is a slot of the
\* frame above from which the links end at a Closed slot.
RECURSIVE EndsClosed(_, _)
EndsClosed(i, j) ==
    /\ i >= 1
    /\ j >= 1
    /\ j <= Len(frames[i].slots)
    /\ \/ frames[i].slots[j] = Closed
       \/ /\ frames[i].slots[j].kind = "Capture"
          /\ EndsClosed(i - 1, frames[i].slots[j].from + 1)

\* C13. Capture chains are well formed in every reachable state: the
\* outermost frame holds no Capture slot; the from of every Capture slot of
\* another frame is a valid index into the slot list of the frame above it,
\* the slot there is Closed or Capture, never Regular, and following the from
\* links ends at a Closed slot of an ancestor.
C13_CaptureChainsWellFormed ==
    \A i \in 1..Len(frames) : \A j \in 1..Len(frames[i].slots) :
        frames[i].slots[j].kind = "Capture"
        => /\ i > 1
           /\ frames[i].slots[j].from < Len(frames[i - 1].slots)
           /\ frames[i - 1].slots[frames[i].slots[j].from + 1].kind \in {"Closed", "Capture"}
           /\ EndsClosed(i, j)

\* A chain of two captures ends at a Closed slot that is not slot 0 of the
\* outermost frame, whose slot 0 is Regular.
C13_Witness ==
    /\ Len(frames) = 3
    /\ Len(frames[1].slots) = 2
    /\ frames[1].slots[1] = Regular
    /\ frames[1].slots[2] = Closed
    /\ Len(frames[2].slots) > 0
    /\ frames[2].slots[1] = Capture(1)
    /\ Len(frames[3].slots) > 0
    /\ frames[3].slots[1] = Capture(0)

\* C14. Cross-frame resolve stops at the nearest frame holding the symbol:
\* when two ancestor frames hold s, a successful resolve(s) from a frame
\* nested in the nearer one, F_b, closes F_b's slot for s and nothing else of
\* F_b, which gains no slot and keeps its scopes, and leaves every frame
\* outside F_b exactly as it was.
C14_NearestFrameOnly ==
    [][(/\ CrossFrame
        /\ \E a \in 1..(Ancestor(frames, call'.symbol) - 1) :
              Holds(frames[a], call'.symbol))
       => LET s == call'.symbol
              b == Ancestor(frames, s)
              k == frames[b].scopes[Innermost(frames[b], s)][s]
          IN /\ \A a \in 1..(b - 1) : frames'[a] = frames[a]
             /\ frames'[b].scopes = frames[b].scopes
             /\ Len(frames'[b].slots) = Len(frames[b].slots)
             /\ frames'[b].slots[k + 1] = Closed
             /\ \A j \in 1..Len(frames[b].slots) :
                   j # k + 1 => frames'[b].slots[j] = frames[b].slots[j]]_vars

\* resolve(s) from the third frame has just closed the second frame's slot for
\* s while the first frame's slot for s is still Regular.
C14_Witness ==
    /\ call.op = "resolve"
    /\ ret.tag = "Ok"
    /\ Len(frames) = 3
    /\ ~Holds(Top, call.symbol)
    /\ Holds(frames[1], call.symbol)
    /\ Holds(frames[2], call.symbol)
    /\ frames[1].slots[frames[1].scopes[Innermost(frames[1], call.symbol)][call.symbol] + 1] = Regular
    /\ frames[2].slots[frames[2].scopes[Innermost(frames[2], call.symbol)][call.symbol] + 1] = Closed

\* C18. A resolve whose hit is in the innermost frame is a local access with
\* no side effect: it returns the slot recorded in the innermost open scope of
\* that frame holding the symbol and leaves every frame as it was; and the
\* FrameInfo of a frame reports Closed only at slots that a cross-frame
\* resolve found in it, so a variable resolved only from its own frame is
\* reported Regular, whatever the ancestor frames declare.
C18_LocalResolveHasNoEffect ==
    [][/\ (/\ call'.op = "resolve"
           /\ Len(frames) > 0
           /\ Holds(Top, call'.symbol))
          => (/\ ret'.tag = "Ok"
              /\ ret'.ix = Top.scopes[Innermost(Top, call'.symbol)][call'.symbol]
              /\ frames' = frames)
       /\ (call'.op = "exit_frame" /\ ret'.tag = "FrameInfo")
          => \A j \in 1..Len(ret'.slots) :
                (j - 1) \notin owed[Len(owed)].closed => ret'.slots[j] # Closed]_vars

\* A local resolve has just returned the slot of a symbol that the parent
\* frame declares too; both slots are Regular.
C18_Witness ==
    /\ call.op = "resolve"
    /\ ret.tag = "Ok"
    /\ Len(frames) = 2
    /\ Holds(Top, call.symbol)
    /\ Holds(frames[1], call.symbol)
    /\ Top.slots[ret.ix + 1] = Regular
    /\ \A j \in 1..Len(frames[1].slots) : frames[1].slots[j] = Regular

\* What a resolve may do to frame i below the innermost one: close slots and
\* append Capture slots, each entered in the first scope under a synthesized
\* symbol; the scopes keep every entry they had.
OnlyCaptured(i) ==
    LET old == frames[i]
        new == frames'[i]
    IN /\ Len(new.scopes) = Len(old.scopes)
       /\ \A j \in 2..Len(old.scopes) : new.scopes[j] = old.scopes[j]
       /\ Len(old.scopes) > 0
          => /\ DOMAIN old.scopes[1] \subseteq DOMAIN new.scopes[1]
             /\ \A s \in DOMAIN old.scopes[1] : new.scopes[1][s] = old.scopes[1][s]
             /\ \A s \in (DOMAIN new.scopes[1]) \ (DOMAIN old.scopes[1]) :
                   /\ s \notin UserIdentifiers
                   /\ new.scopes[1][s] >= Len(old.slots)
       /\ Len(new.slots) >= Len(old.slots)
       /\ \A j \in 1..Len(old.slots) :
             new.slots[j] = old.slots[j] \/ new.slots[j] = Closed
       /\ \A j \in (Len(old.slots) + 1)..Len(new.slots) : new.slots[j].kind = "Capture"

\* C19. enter_block, exit_block, declare, resolve_or_declare and exit_frame
\* modify no frame but the innermost one; exit_frame removes the innermost
\* frame and returns exactly its slot-kind sequence, leaving the parent as the
\* innermost frame; while a frame is not the innermost one, only resolve
\* touches it, and only by closing slots and adding capture slots.
C19_OnlyInnermostFrameModified ==
    [][LET n == Len(frames) IN
       /\ call'.op \in {"enter_block", "exit_block", "declare", "resolve_or_declare"}
          => (/\ Len(frames') = n
              /\ \A i \in 1..(n - 1) : frames'[i] = frames[i])
       /\ call'.op = "enter_frame"
          => (/\ Len(frames') = n + 1
              /\ \A i \in 1..n : frames'[i] = frames[i])
       /\ (call'.op = "exit_frame" /\ n > 0)
          => (/\ Len(frames') = n - 1
              /\ \A i \in 1..(n - 1) : frames'[i] = frames[i]
              /\ ret'.tag = "FrameInfo" => ret'.slots = Top.slots)
       /\ call'.op = "resolve"
          => (/\ Len(frames') = n
              /\ \A i \in 1..(n - 1) : OnlyCaptured(i))]_vars

\* exit_frame has just returned the layout of a frame that declared a variable
\* and then captured one; the parent is the innermost frame again, its slot
\* closed and its open block kept.
C19_Witness ==
    /\ call.op = "exit_frame"
    /\ ret.tag = "FrameInfo"
    /\ ret.slots = <<Regular, Capture(0)>>
    /\ Len(frames) = 1
    /\ Len(Top.scopes) = 2
    /\ Top.slots = <<Closed>>

\* C15. A capture chain is shared between a function and the functions nested
\* in it: when a frame below the innermost one already holds a Capture slot c
\* for a symbol of a frame further out (made by an earlier resolve that went
\* through it), a later resolve of that symbol from a frame nested in it adds
\* no slot to it, and the capture slot for the symbol in the frame directly
\* inside it has from = c.
C15_CaptureChainShared ==
    [][CrossFrame =>
          LET symbol == call'.symbol
              origin == Ancestor(frames, symbol)
          IN \A i \in (origin + 1)..(Len(frames) - 1) :
                (/\ symbol \in DOMAIN chain[i]
                 /\ frames[i].slots[chain[i][symbol] + 1].kind = "Capture")
                => (/\ Len(frames'[i].slots) = Len(frames[i].slots)
                    /\ frames'[i + 1].slots[chain'[i + 1][symbol] + 1]
                          = Capture(chain[i][symbol]))]_vars

\* C16. resolve_or_declare(s) looks s up in the first (root) scope of the
\* innermost frame only: present, it returns that slot and changes nothing;
\* absent, it appends one Regular slot and maps s to it in the root scope. It
\* returns a SlotIx, never an error, and a second call for the same s within
\* the frame's lifetime returns the SlotIx of the first and allocates nothing.
C16_ResolveOrDeclareRootOnly ==
    [][(call'.op = "resolve_or_declare" /\ Len(frames) > 0) =>
          LET symbol == call'.symbol
              n == Len(frames)
          IN /\ ret'.tag = "SlotIx"
             /\ IF symbol \in DOMAIN Top.scopes[1]
                THEN /\ ret'.ix = Top.scopes[1][symbol]
                     /\ frames' = frames
                ELSE /\ ret'.ix = Len(Top.slots)
                     /\ frames'[n].slots = Append(Top.slots, Regular)
                     /\ Len(frames'[n].scopes) = Len(Top.scopes)
                     /\ symbol \in DOMAIN frames'[n].scopes[1]
                     /\ frames'[n].scopes[1][symbol] = ret'.ix
                     /\ \A j \in 2..Len(Top.scopes) :
                           frames'[n].scopes[j] = Top.scopes[j]
             /\ symbol \in DOMAIN introduced
                => (/\ ret'.ix = introduced[symbol]
                    /\ frames' = frames)]_vars

\* C17. resolve_or_declare agrees with resolve: when s is declared in any open
\* block of the innermost frame, resolve_or_declare(s) allocates no slot and
\* returns the slot resolve(s) returns; and a resolve(s) issued directly after
\* resolve_or_declare(s) returns the SlotIx resolve_or_declare(s) returned.
C17_ResolveOrDeclareAgreesWithResolve ==
    [][/\ (/\ call'.op = "resolve_or_declare"
           /\ Len(frames) > 0
           /\ Holds(Top, call'.symbol))
          => (/\ ret'.tag = "SlotIx"
              /\ ret'.ix = Top.scopes[Innermost(Top, call'.symbol)][call'.symbol]
              /\ frames' = frames)
       /\ (/\ call'.op = "resolve"
           /\ call.op = "resolve_or_declare"
           /\ ret.tag = "SlotIx"
           /\ call.symbol = call'.symbol)
          => (/\ ret'.tag = "Ok"
              /\ ret'.ix = ret.ix)]_vars

====
